---------------------------- MODULE Spec2Model ----------------------------
(***************************************************************************)
(* Model of init_template.py: the template initialization script.          *)
(*                                                                         *)
(* Text is a sequence of characters; a character is a one-character string *)
(* or, for the characters that cannot be written that way, its name:       *)
(* "U+0130" (LATIN CAPITAL LETTER I WITH DOT ABOVE), "U+0307" (COMBINING   *)
(* DOT ABOVE), "LF" (line feed), "TAB".                                    *)
(***************************************************************************)
EXTENDS Integers, Sequences, FiniteSets, TLC

VARIABLES
    pc,             \* position of main (and of get_user_input inside it)
    pyproject,      \* pyproject.toml: whether it exists, and its text (lines)
    srcDirs,        \* the directories under src/: name -> directory
    srcInit,        \* the file src/__init__.py
    gitDir,         \* .git: "absent", "old", "partial" or "fresh"
    script,         \* the script file itself: "present" or "removed"
    project_name,   \* local of get_user_input / main
    package_name,
    pyproject_name,
    author_name,
    author_email,
    success,        \* main's accumulated flag
    results,        \* what each step returned: step -> "none", "ok" or "fail"
    started,        \* the steps main has called so far, in call order
    answers,        \* what the user typed at each yes/no prompt
    exitCode,       \* the exit code of the process, -1 while it runs
    fs0,            \* the file system as main found it
    text,           \* transformer harness: the input text
    once,           \* transformer harness: the transformers applied once
    twice           \* transformer harness: the transformers applied twice

mainVars == <<pc, pyproject, srcDirs, srcInit, gitDir, script, project_name,
              package_name, pyproject_name, author_name, author_email,
              success, results, started, answers, exitCode, fs0>>
nameVars == <<text, once, twice>>
vars == <<mainVars, nameVars>>

(***************************************************************************)
(* Characters                                                              *)
(***************************************************************************)
LowerLetters == <<"a","b","c","d","e","f","g","h","i","j","k","l","m",
                  "n","o","p","q","r","s","t","u","v","w","x","y","z">>
UpperLetters == <<"A","B","C","D","E","F","G","H","I","J","K","L","M",
                  "N","O","P","Q","R","S","T","U","V","W","X","Y","Z">>
Range(s) == {s[i] : i \in DOMAIN s}
Digits == {"0","1","2","3","4","5","6","7","8","9"}
AsciiLetters == Range(LowerLetters) \cup Range(UpperLetters)

\* \w of Python's re on str: alphanumerics (Unicode) and the underscore
WordChars == AsciiLetters \cup Digits \cup {"_", "U+0130"}
\* \s of Python's re on str
SpaceChars == {" ", "TAB", "LF"}

IndexOf(s, c) == CHOOSE i \in DOMAIN s : s[i] = c

\* str.lower() of one character; U+0130 lowers to two characters
LowerChar(c) ==
    IF c \in Range(UpperLetters) THEN <<LowerLetters[IndexOf(UpperLetters, c)]>>
    ELSE IF c = "U+0130" THEN <<"i", "U+0307">>
    ELSE <<c>>

\* str.upper() of one ASCII character
UpperChar(c) ==
    IF c \in Range(LowerLetters) THEN UpperLetters[IndexOf(LowerLetters, c)]
    ELSE c

RECURSIVE Lower(_)
Lower(s) == IF s = <<>> THEN <<>> ELSE LowerChar(Head(s)) \o Lower(Tail(s))

\* re.sub(r'[cls]+', rep, s): every maximal run of characters of cls becomes rep
RECURSIVE SubRuns(_, _, _)
SubRuns(s, cls, rep) ==
    IF s = <<>> THEN <<>>
    ELSE IF Head(s) \in cls
         THEN IF Len(s) > 1 /\ s[2] \in cls
              THEN SubRuns(Tail(s), cls, rep)
              ELSE rep \o SubRuns(Tail(s), cls, rep)
         ELSE <<Head(s)>> \o SubRuns(Tail(s), cls, rep)

\* re.sub(r'[^keep]', '', s)
Keep(s, keep) == SelectSeq(s, LAMBDA c : c \in keep)

\* str.strip()
RECURSIVE LStrip(_)
LStrip(s) == IF s # <<>> /\ Head(s) \in SpaceChars THEN LStrip(Tail(s)) ELSE s
RECURSIVE RStrip(_)
RStrip(s) == IF s # <<>> /\ s[Len(s)] \in SpaceChars
             THEN RStrip(SubSeq(s, 1, Len(s) - 1)) ELSE s
Strip(s) == RStrip(LStrip(s))

(***************************************************************************)
(* Name transformers                                                       *)
(***************************************************************************)
to_snake_case(name) ==
    Lower(Keep(SubRuns(name, {"-"} \cup SpaceChars, <<"_">>), WordChars))

to_kebab_case(name) ==
    Lower(Keep(SubRuns(name, {"_"} \cup SpaceChars, <<"-">>), WordChars \cup {"-"}))

(***************************************************************************)
(* Fixed texts of the script                                               *)
(***************************************************************************)
TemplatePackageDir == <<"t","e","m","p","l","a","t","e","_","p","a","c","k","a","g","e">>
TemplatePackageName == <<"t","e","m","p","l","a","t","e","-","p","a","c","k","a","g","e">>
DefaultAuthorName == <<"Y","o","u","r"," ","N","a","m","e">>
DefaultAuthorEmail == <<"y","o","u","r",".","e","m","a","i","l","@","e","x","a","m","p","l","e",".","c","o","m">>
DescriptionSuffix == <<" ","-"," ","A"," ","G","e","n","A","I"," ","a","p","p","l","i","c","a","t","i","o","n">>
KeyName == <<"n","a","m","e">>
KeyDescription == <<"d","e","s","c","r","i","p","t","i","o","n">>
KeyEmail == <<"e","m","a","i","l">>
WordTemplate == <<"t","e","m","p","l","a","t","e">>

(***************************************************************************)
(* Text helpers                                                            *)
(***************************************************************************)
IsSuffix(suf, s) ==
    /\ Len(s) >= Len(suf)
    /\ SubSeq(s, Len(s) - Len(suf) + 1, Len(s)) = suf

Contains(s, w) ==
    \E i \in 1..(Len(s) - Len(w) + 1) : SubSeq(s, i, i + Len(w) - 1) = w

\* The escapes a replacement template of re.sub knows: \a \b \f \n \r \t \v \\
TemplateEscape(c) ==
    CASE c = "a" -> "BEL" [] c = "b" -> "BS" [] c = "f" -> "FF" [] c = "n" -> "LF"
      [] c = "r" -> "CR" [] c = "t" -> "TAB" [] c = "v" -> "VT" [] c = "\\" -> "\\"

\* re.error raised while the replacement string is read
TemplateError == <<"re.error">>

\* How re.sub reads its replacement string (none of the four patterns has a
\* group): TemplateError when re.error is raised, else the text inserted.
\* A backslash before a character that is neither an ASCII letter nor a digit
\* stays, with that character.  \0 (octal) and \g<...> are not expanded here;
\* no input of this model contains them.
RECURSIVE ExpandTemplate(_)
ExpandTemplate(t) ==
    IF t = <<>> THEN <<>>
    ELSE IF Head(t) # "\\"
         THEN LET rest == ExpandTemplate(Tail(t))
              IN  IF rest = TemplateError THEN TemplateError ELSE <<Head(t)>> \o rest
    ELSE IF Len(t) = 1 THEN TemplateError
    ELSE LET c == t[2]
             rest == ExpandTemplate(SubSeq(t, 3, Len(t)))
         IN  IF c \in {"a", "b", "f", "n", "r", "t", "v", "\\"}
             THEN IF rest = TemplateError THEN TemplateError ELSE <<TemplateEscape(c)>> \o rest
             ELSE IF c \in AsciiLetters \cup Digits THEN TemplateError
             ELSE IF rest = TemplateError THEN TemplateError ELSE <<"\\", c>> \o rest

\* The text that replaces the quoted value when the replacement string is
\* f'... = "{v}{suffix}"': the template read up to its closing quote
NewValue(v) ==
    LET e == ExpandTemplate(v \o <<"\"">>)
    IN  IF e = TemplateError THEN TemplateError ELSE SubSeq(e, 1, Len(e) - 1)

(***************************************************************************)
(* pyproject.toml.  The text is a sequence of lines, each  key = "value"   *)
(* with no quote inside the value.                                         *)
(***************************************************************************)
\* r'name = "template-package"' matches in this line
MatchesProjectName(line) ==
    IsSuffix(KeyName, line.key) /\ line.value = TemplatePackageName

\* r'description = ".*template.*"' with re.IGNORECASE matches in this line
MatchesDescription(line) ==
    IsSuffix(KeyDescription, Lower(line.key)) /\ Contains(Lower(line.value), WordTemplate)

\* r'name = "Your Name"' matches in this line
MatchesAuthorName(line) ==
    IsSuffix(KeyName, line.key) /\ line.value = DefaultAuthorName

\* r'email = "your\.email@example\.com"' matches in this line
MatchesAuthorEmail(line) ==
    IsSuffix(KeyEmail, line.key) /\ line.value = DefaultAuthorEmail

SubProjectName(content, v) ==
    [i \in DOMAIN content |->
        IF MatchesProjectName(content[i])
        THEN [content[i] EXCEPT !.value = v] ELSE content[i]]

\* the match starts at the word description, whatever its case, and the
\* replacement spells it in lower case
SubDescription(content, v) ==
    [i \in DOMAIN content |->
        IF MatchesDescription(content[i])
        THEN [key |-> SubSeq(content[i].key, 1,
                             Len(content[i].key) - Len(KeyDescription))
                      \o KeyDescription,
              value |-> v]
        ELSE content[i]]

SubAuthorName(content, v) ==
    [i \in DOMAIN content |->
        IF MatchesAuthorName(content[i])
        THEN [content[i] EXCEPT !.value = v] ELSE content[i]]

SubAuthorEmail(content, v) ==
    [i \in DOMAIN content |->
        IF MatchesAuthorEmail(content[i])
        THEN [content[i] EXCEPT !.value = v] ELSE content[i]]

NoFile == [exists |-> FALSE, text |-> <<>>]
File(t) == [exists |-> TRUE, text |-> t]

\* update_pyproject_toml: [ok |-> what it returns, file |-> pyproject.toml after]
update_pyproject_toml(file, projectName, authorName, authorEmail) ==
    IF ~file.exists THEN [ok |-> FALSE, file |-> file]
    ELSE LET v1 == NewValue(projectName)
             v2 == NewValue(projectName \o DescriptionSuffix)
             v3 == NewValue(authorName)
             v4 == NewValue(authorEmail)
         IN  IF TemplateError \in {v1, v2, v3, v4}
             THEN [ok |-> FALSE, file |-> file]
             ELSE [ok |-> TRUE,
                   file |-> File(SubAuthorEmail(
                                   SubAuthorName(
                                     SubDescription(
                                       SubProjectName(file.text, v1), v2), v3), v4))]

(***************************************************************************)
(* The file system under src/.  srcDirs maps the name of each directory    *)
(* that exists under src/ to the directory; src/ itself always exists (a   *)
(* missing src/ is to the script an empty one).                            *)
(***************************************************************************)
NoMarker == [exists |-> FALSE, title |-> <<>>, version |-> ""]
OriginalMarker == [exists |-> TRUE, title |-> <<>>, version |-> "template"]
Directory(marker) == [marker |-> marker, files |-> {"main.py", "py.typed"}]

\* Path("src") / name exists; Path("src") / "" is src/ itself
PathExists(dirs, name) == name = <<>> \/ name \in DOMAIN dirs

rename_package_overwrite(dirs, old_name, new_name, moveOk) ==
    IF ~PathExists(dirs, old_name) THEN [ok |-> FALSE, dirs |-> dirs]
    ELSE IF ~moveOk \/ old_name = <<>> THEN [ok |-> FALSE, dirs |-> dirs]
    ELSE [ok |-> TRUE,
          dirs |-> [n \in (DOMAIN dirs \ {old_name}) \cup {new_name} |->
                       IF n = new_name THEN dirs[old_name] ELSE dirs[n]]]

\* rename_package: [ok |-> what it returns, dirs |-> src/ after].  moveOk: the
\* shutil.move call does not raise (it is one os.rename inside src/, which
\* either happens or leaves both paths as they were)
rename_package(dirs, old_name, new_name, moveOk) ==
    IF ~PathExists(dirs, old_name) THEN [ok |-> FALSE, dirs |-> dirs]
    ELSE IF PathExists(dirs, new_name) THEN [ok |-> FALSE, dirs |-> dirs]
    ELSE IF ~moveOk \/ old_name = <<>> THEN [ok |-> FALSE, dirs |-> dirs]
    ELSE [ok |-> TRUE,
          dirs |-> [n \in (DOMAIN dirs \ {old_name}) \cup {new_name} |->
                       IF n = new_name THEN dirs[old_name] ELSE dirs[n]]]

\* str.title() of ASCII text: a letter is upper case after a non-letter and
\* lower case after a letter
RECURSIVE TitleFrom(_, _)
TitleFrom(s, prevCased) ==
    IF s = <<>> THEN <<>>
    ELSE LET c == Head(s)
         IN  IF c \in AsciiLetters
             THEN (IF prevCased THEN LowerChar(c) ELSE <<UpperChar(c)>>)
                  \o TitleFrom(Tail(s), TRUE)
             ELSE <<c>> \o TitleFrom(Tail(s), FALSE)

\* package_name.replace('_', ' ').title()
MarkerTitle(name) ==
    TitleFrom([i \in DOMAIN name |-> IF name[i] = "_" THEN " " ELSE name[i]], FALSE)

NewMarker(name) == [exists |-> TRUE, title |-> MarkerTitle(name), version |-> "0.1.0"]

\* update_package_init: it always returns True; [dirs, init] is src/ after.
\* With an empty package name the path is src/__init__.py.  writeOk: the
\* write_text call does not raise
update_package_init(dirs, init, name, writeOk) ==
    IF name = <<>>
    THEN [dirs |-> dirs,
          init |-> IF init.exists /\ writeOk THEN NewMarker(name) ELSE init]
    ELSE [dirs |-> IF name \in DOMAIN dirs /\ dirs[name].marker.exists /\ writeOk
                   THEN [dirs EXCEPT ![name].marker = NewMarker(name)]
                   ELSE dirs,
          init |-> init]

(***************************************************************************)
(* What the user types                                                     *)
(***************************************************************************)
ProjectAnswers ==
    { <<>>, <<" ">>,
      <<"M","y"," ","A","p","p">>,
      <<"!","!","!">>,
      TemplatePackageDir }
PackageAnswers == { <<>>, <<"!","!">>, <<"L","i","b"," ","2">> }
PyprojectAnswers == { <<>>, <<"M","y","_","P","r","o","j">> }
AuthorAnswers == { <<>>, <<"B","o","b">>, <<"a","\\","d">>, <<"a","\\","n">> }
EmailAnswers == { <<" ">>, <<"b","@","x">> }
ConfirmAnswers == { <<>>, <<"n">>, <<"N","o"," ">> }
GitAnswers == { <<>>, <<"n">>, <<"y">>, <<" ","Y","E","S">> }
RemoveAnswers == { <<>>, <<"N","O">> }

Prompts == {"confirm", "git", "remove"}
NotAsked == [asked |-> FALSE, raw |-> <<>>]
Typed(a) == [asked |-> TRUE, raw |-> a]

\* input(...).strip().lower()
Response(a) == Lower(Strip(a))
NoOnlyN == { <<"n">> }
No == { <<"n">>, <<"n","o">> }
Yes == { <<"y">>, <<"y","e","s">> }

(***************************************************************************)
(* Initial states                                                          *)
(***************************************************************************)
Line(k, v) == [key |-> k, value |-> v]
PyprojectFiles ==
    { NoFile,
      File(<< Line(KeyName, TemplatePackageName),
              Line(KeyDescription, <<"A"," ">> \o WordTemplate),
              Line(KeyName, DefaultAuthorName),
              Line(KeyEmail, DefaultAuthorEmail) >>),
      File(<< Line(KeyName, <<"a","p","p">>),
              Line(<<"D","e","s","c","r","i","p","t","i","o","n">>,
                   <<"T","E","M","P","L","A","T","E","s">>),
              Line(<<"f","u","l","l","_">> \o KeyName, DefaultAuthorName),
              Line(KeyEmail, <<"b","@","x">>) >>),
      File(<< Line(KeyName, TemplatePackageName),
              Line(KeyDescription, <<"a","p","p">>),
              Line(KeyName, <<"B","o","b">>),
              Line(KeyEmail, DefaultAuthorEmail) >>) }

MyApp == <<"m","y","_","a","p","p">>
SrcTrees ==
    { <<>>,
      TemplatePackageDir :> Directory(OriginalMarker),
      TemplatePackageDir :> Directory(NoMarker),
      (TemplatePackageDir :> Directory(OriginalMarker)) @@ (MyApp :> Directory(NoMarker)) }

Steps == {"rename_package", "update_pyproject_toml", "update_package_init", "reinit_git"}

FileSystem == [pyproject |-> pyproject, srcDirs |-> srcDirs, srcInit |-> srcInit,
               gitDir |-> gitDir, script |-> script]

LocalsInit ==
    /\ project_name = <<>>
    /\ package_name = <<>>
    /\ pyproject_name = <<>>
    /\ author_name = <<>>
    /\ author_email = <<>>
    /\ success = TRUE
    /\ results = [s \in Steps |-> "none"]
    /\ started = <<>>
    /\ answers = [p \in Prompts |-> NotAsked]
    /\ exitCode = -1

HarnessIdle ==
    /\ text = <<>>
    /\ once = [snake |-> <<>>, kebab |-> <<>>]
    /\ twice = [snake |-> <<>>, kebab |-> <<>>]

Init ==
    /\ pc = "main"
    /\ pyproject \in PyprojectFiles
    /\ srcDirs \in SrcTrees
    /\ srcInit \in {NoMarker, OriginalMarker}
    /\ gitDir \in {"absent", "old"}
    /\ script = "present"
    /\ fs0 = FileSystem
    /\ LocalsInit
    /\ HarnessIdle

(***************************************************************************)
(* main and get_user_input                                                 *)
(***************************************************************************)
fsVars == <<pyproject, srcDirs, srcInit, gitDir, script>>
inputVars == <<project_name, package_name, pyproject_name, author_name, author_email>>
runVars == <<success, results, started, answers>>

Exit(code) == pc' = "done" /\ exitCode' = code

PromptPcs == {"ask_project", "ask_package", "ask_pyproject", "ask_author",
              "ask_email", "confirm", "reinit_git", "ask_remove"}

CheckPyprojectNoReturn ==
    /\ pc = "main"
    /\ pc' = "ask_project" /\ exitCode' = exitCode
    /\ UNCHANGED <<fsVars, inputVars, runVars, fs0, nameVars>>

\* main, the check of the working directory
CheckPyproject ==
    /\ pc = "main"
    /\ IF ~pyproject.exists
       THEN Exit(1)
       ELSE pc' = "ask_project" /\ exitCode' = exitCode
    /\ UNCHANGED <<fsVars, inputVars, runVars, fs0, nameVars>>

\* get_user_input, the project-name loop
AskProjectName ==
    /\ pc = "ask_project"
    /\ \E a \in ProjectAnswers :
          IF Strip(a) # <<>>
          THEN /\ project_name' = Strip(a)
               /\ pc' = "ask_package"
          ELSE /\ project_name' = Strip(a)
               /\ pc' = "ask_project"
    /\ UNCHANGED <<fsVars, package_name, pyproject_name, author_name,
                   author_email, runVars, exitCode, fs0, nameVars>>

\* get_user_input, the defaults and the package-name override
AskPackageName ==
    /\ pc = "ask_package"
    /\ \E a \in PackageAnswers :
          package_name' = IF Strip(a) # <<>> THEN to_snake_case(Strip(a))
                          ELSE to_snake_case(project_name)
    /\ pyproject_name' = to_kebab_case(project_name)
    /\ pc' = "ask_pyproject"
    /\ UNCHANGED <<fsVars, project_name, author_name, author_email, runVars,
                   exitCode, fs0, nameVars>>

\* get_user_input, the project-name override
AskPyprojectName ==
    /\ pc = "ask_pyproject"
    /\ \E a \in PyprojectAnswers :
          pyproject_name' = IF Strip(a) # <<>> THEN to_kebab_case(Strip(a))
                            ELSE pyproject_name
    /\ pc' = "ask_author"
    /\ UNCHANGED <<fsVars, project_name, package_name, author_name,
                   author_email, runVars, exitCode, fs0, nameVars>>

AskAuthorName ==
    /\ pc = "ask_author"
    /\ \E a \in AuthorAnswers :
          author_name' = IF Strip(a) # <<>> THEN Strip(a) ELSE DefaultAuthorName
    /\ pc' = "ask_email"
    /\ UNCHANGED <<fsVars, project_name, package_name, pyproject_name,
                   author_email, runVars, exitCode, fs0, nameVars>>

AskAuthorEmail ==
    /\ pc = "ask_email"
    /\ \E a \in EmailAnswers :
          author_email' = IF Strip(a) # <<>> THEN Strip(a) ELSE DefaultAuthorEmail
    /\ pc' = "confirm"
    /\ UNCHANGED <<fsVars, project_name, package_name, pyproject_name,
                   author_name, runVars, exitCode, fs0, nameVars>>

\* main, the final confirmation
Confirm ==
    /\ pc = "confirm"
    /\ \E a \in ConfirmAnswers :
          /\ answers' = [answers EXCEPT !["confirm"] = Typed(a)]
          /\ IF Response(a) \in No
             THEN Exit(0)
             ELSE pc' = "rename" /\ exitCode' = exitCode
    /\ UNCHANGED <<fsVars, inputVars, success, results, started, fs0, nameVars>>

RenamePackageEarlyExit ==
    /\ pc = "rename"
    /\ \E moveOk \in BOOLEAN :
          LET r == rename_package(srcDirs, TemplatePackageDir, package_name, moveOk)
          IN  /\ srcDirs' = r.dirs
              /\ success' = (success /\ r.ok)
              /\ results' = [results EXCEPT !["rename_package"] =
                                IF r.ok THEN "ok" ELSE "fail"]
              /\ IF r.ok THEN pc' = "update_pyproject" /\ exitCode' = exitCode
                 ELSE Exit(1)
    /\ started' = Append(started, "rename_package")
    /\ UNCHANGED <<pyproject, srcInit, gitDir, script, inputVars, answers,
                   fs0, nameVars>>

\* success &= rename_package("template_package", package_name)
RenamePackage ==
    /\ pc = "rename"
    /\ \E moveOk \in BOOLEAN :
          LET r == rename_package(srcDirs, TemplatePackageDir, package_name, moveOk)
          IN  /\ srcDirs' = r.dirs
              /\ success' = (success /\ r.ok)
              /\ results' = [results EXCEPT !["rename_package"] =
                                IF r.ok THEN "ok" ELSE "fail"]
    /\ started' = Append(started, "rename_package")
    /\ pc' = "update_pyproject"
    /\ UNCHANGED <<pyproject, srcInit, gitDir, script, inputVars, answers,
                   exitCode, fs0, nameVars>>

\* success &= update_pyproject_toml(...)
UpdatePyprojectToml ==
    /\ pc = "update_pyproject"
    /\ LET r == update_pyproject_toml(pyproject, pyproject_name, author_name,
                                      author_email)
       IN  /\ pyproject' = r.file
           /\ success' = (success /\ r.ok)
           /\ results' = [results EXCEPT !["update_pyproject_toml"] =
                             IF r.ok THEN "ok" ELSE "fail"]
    /\ started' = Append(started, "update_pyproject_toml")
    /\ pc' = "update_init"
    /\ UNCHANGED <<srcDirs, srcInit, gitDir, script, inputVars, answers,
                   exitCode, fs0, nameVars>>

\* success &= update_package_init(package_name)
UpdatePackageInit ==
    /\ pc = "update_init"
    /\ \E writeOk \in BOOLEAN :
          LET r == update_package_init(srcDirs, srcInit, package_name, writeOk)
          IN  /\ srcDirs' = r.dirs
              /\ srcInit' = r.init
    /\ success' = (success /\ TRUE)
    /\ results' = [results EXCEPT !["update_package_init"] = "ok"]
    /\ started' = Append(started, "update_package_init")
    /\ pc' = "reinit_git"
    /\ UNCHANGED <<pyproject, gitDir, script, inputVars, answers, exitCode,
                   fs0, nameVars>>

\* what reinit_git returns, accumulated by main: success &= reinit_git()
ReinitGitReturns(ok) ==
    /\ success' = (success /\ ok)
    /\ results' = [results EXCEPT !["reinit_git"] = IF ok THEN "ok" ELSE "fail"]
    /\ pc' = "report"

\* reinit_git, the prompt
ReinitGitPrompt ==
    /\ pc = "reinit_git"
    /\ started' = Append(started, "reinit_git")
    /\ \E a \in GitAnswers :
          /\ answers' = [answers EXCEPT !["git"] = Typed(a)]
          /\ IF Response(a) \in Yes
             THEN pc' = "git_rmtree" /\ UNCHANGED <<success, results>>
             ELSE ReinitGitReturns(TRUE)
    /\ UNCHANGED <<fsVars, inputVars, exitCode, fs0, nameVars>>

\* reinit_git, the removal of .git; a failing shutil.rmtree may have removed
\* part of the directory
ReinitGitRmtree ==
    /\ pc = "git_rmtree"
    /\ \/ /\ gitDir = "absent"
          /\ pc' = "git_init"
          /\ UNCHANGED <<gitDir, success, results>>
       \/ /\ gitDir # "absent"
          /\ gitDir' = "absent"
          /\ pc' = "git_init"
          /\ UNCHANGED <<success, results>>
       \/ /\ gitDir # "absent"
          /\ gitDir' \in {gitDir, "partial"}
          /\ ReinitGitReturns(FALSE)
    /\ UNCHANGED <<pyproject, srcDirs, srcInit, script, inputVars, started,
                   answers, exitCode, fs0, nameVars>>

ReinitGitInitRestores ==
    /\ pc = "git_init"
    /\ \/ gitDir' = "fresh" /\ ReinitGitReturns(TRUE)
       \/ gitDir' = fs0.gitDir /\ ReinitGitReturns(FALSE)
    /\ UNCHANGED <<pyproject, srcDirs, srcInit, script, inputVars, started,
                   answers, exitCode, fs0, nameVars>>

\* reinit_git, subprocess.run(["git", "init"], check=True)
ReinitGitInit ==
    /\ pc = "git_init"
    /\ \/ gitDir' = "fresh" /\ ReinitGitReturns(TRUE)
       \/ gitDir' = gitDir /\ ReinitGitReturns(FALSE)
    /\ UNCHANGED <<pyproject, srcDirs, srcInit, script, inputVars, started,
                   answers, exitCode, fs0, nameVars>>

ReportAlwaysSuccess ==
    /\ pc = "report"
    /\ pc' = "ask_remove" /\ exitCode' = exitCode
    /\ UNCHANGED <<fsVars, inputVars, runVars, fs0, nameVars>>

\* main, if success: ... else: ... return 1
Report ==
    /\ pc = "report"
    /\ IF success
       THEN pc' = "ask_remove" /\ exitCode' = exitCode
       ELSE Exit(1)
    /\ UNCHANGED <<fsVars, inputVars, runVars, fs0, nameVars>>

\* main, the removal prompt, and remove_self; unlinkOk: unlink does not raise
AskRemove ==
    /\ pc = "ask_remove"
    /\ \E a \in RemoveAnswers, unlinkOk \in BOOLEAN :
          /\ answers' = [answers EXCEPT !["remove"] = Typed(a)]
          /\ script' = IF Response(a) \notin No /\ unlinkOk THEN "removed"
                       ELSE script
    /\ Exit(0)
    /\ UNCHANGED <<pyproject, srcDirs, srcInit, gitDir, inputVars, success,
                   results, started, fs0, nameVars>>

\* input() raises EOFError or KeyboardInterrupt: the handlers at the bottom
\* of the script exit with 1.  The prompt of reinit_git is inside the step
InputRaises ==
    /\ pc \in PromptPcs
    /\ started' = IF pc = "reinit_git" THEN Append(started, "reinit_git")
                  ELSE started
    /\ Exit(1)
    /\ UNCHANGED <<fsVars, inputVars, success, results, answers, fs0, nameVars>>

Next ==
    \/ CheckPyproject
    \/ AskProjectName
    \/ AskPackageName
    \/ AskPyprojectName
    \/ AskAuthorName
    \/ AskAuthorEmail
    \/ Confirm
    \/ RenamePackage
    \/ UpdatePyprojectToml
    \/ UpdatePackageInit
    \/ ReinitGitPrompt
    \/ ReinitGitRmtree
    \/ ReinitGitInit
    \/ Report
    \/ AskRemove
    \/ InputRaises

Spec == Init /\ [][Next]_vars

(***************************************************************************)
(* The name transformers on every text of at most MaxLen characters        *)
(***************************************************************************)
MaxLen == 3
NameChars == {"a", "B", "7", "_", "-", " ", "!", "U+0130", "U+0307"}
Texts == UNION { [1..n -> NameChars] : n \in 0..MaxLen }

InitNames ==
    /\ pc = "transform"
    /\ pyproject = NoFile
    /\ srcDirs = <<>>
    /\ srcInit = NoMarker
    /\ gitDir = "absent"
    /\ script = "present"
    /\ fs0 = FileSystem
    /\ LocalsInit
    /\ text \in Texts
    /\ once = [snake |-> <<>>, kebab |-> <<>>]
    /\ twice = [snake |-> <<>>, kebab |-> <<>>]

TransformOnce ==
    /\ pc = "transform"
    /\ once' = [snake |-> to_snake_case(text), kebab |-> to_kebab_case(text)]
    /\ pc' = "transform_again"
    /\ UNCHANGED <<fsVars, inputVars, runVars, exitCode, fs0, text, twice>>

TransformTwice ==
    /\ pc = "transform_again"
    /\ twice' = [snake |-> to_snake_case(once.snake), kebab |-> to_kebab_case(once.kebab)]
    /\ pc' = "transformed"
    /\ UNCHANGED <<fsVars, inputVars, runVars, exitCode, fs0, text, once>>

NextNames == TransformOnce \/ TransformTwice

SpecNames == InitNames /\ [][NextNames]_vars

(***************************************************************************)
(* Properties                                                              *)
(***************************************************************************)
AllSteps == <<"rename_package", "update_pyproject_toml", "update_package_init",
              "reinit_git">>
IsPrefix(p, q) == Len(p) <= Len(q) /\ SubSeq(q, 1, Len(p)) = p

ConfirmDeclined ==
    /\ answers["confirm"].asked
    /\ Lower(Strip(answers["confirm"].raw)) \in { <<"n">>, <<"n","o">> }
ConfirmAccepted == answers["confirm"].asked /\ ~ConfirmDeclined

\* main returned from its last statement: every step returned, and the removal
\* prompt, when there was one, was answered
RanToEnd ==
    /\ pc = "done"
    /\ \A st \in Steps : results[st] # "none"
    /\ success => answers["remove"].asked

\* C1: once the final confirmation is not declined, the exit code is 0 exactly
\* when the package rename and the config edit both succeeded; the marker step
\* and the version-control reset never turn the run into exit code 1.
C1_ExitCodeIsRenameAndConfig ==
    RanToEnd =>
        /\ success = (results["rename_package"] = "ok"
                      /\ results["update_pyproject_toml"] = "ok")
        /\ (exitCode = 0) = (results["rename_package"] = "ok"
                             /\ results["update_pyproject_toml"] = "ok")

\* C2: when the user declines the final confirmation the run ends with exit
\* code 0, the file system is as main found it and no step was started.
C2_DeclineIsNoOp ==
    ConfirmDeclined =>
        /\ pc = "done"
        /\ exitCode = 0
        /\ FileSystem = fs0
        /\ started = <<>>
        /\ \A st \in Steps : results[st] = "none"

C2_Witness ==
    /\ pc = "done"
    /\ answers["confirm"] = Typed(<<"N","o"," ">>)
    /\ exitCode = 0

\* C3: when pyproject.toml does not exist as main starts, main returns 1 at
\* once: nothing is asked, nothing is collected, the file system is unchanged.
C3_MissingPyprojectExitsOne ==
    ~fs0.pyproject.exists =>
        /\ pc \in {"main", "done"}
        /\ pc = "done" => exitCode = 1
        /\ FileSystem = fs0
        /\ project_name = <<>> /\ package_name = <<>> /\ pyproject_name = <<>>
        /\ author_name = <<>> /\ author_email = <<>>
        /\ \A p \in Prompts : ~answers[p].asked
        /\ started = <<>>

C3_Witness == pc = "done" /\ ~fs0.pyproject.exists /\ exitCode = 1

\* C4: rename_package returns failure, without raising and without changing
\* the file system, when src/old is missing or something is at src/new (new =
\* old included); when it returns success the directory, contents and all, is
\* at src/new and no longer at src/old.
C4_RenamePackage ==
    [][pc = "rename" =>
        /\ pc' = "update_pyproject"
        /\ (\/ TemplatePackageDir \notin DOMAIN srcDirs
            \/ package_name \in DOMAIN srcDirs
            \/ package_name = <<>>)
           => /\ results'["rename_package"] = "fail"
              /\ FileSystem' = FileSystem
        /\ results'["rename_package"] = "ok"
           => /\ package_name \in DOMAIN srcDirs'
              /\ srcDirs'[package_name] = srcDirs[TemplatePackageDir]
              /\ TemplatePackageDir \notin DOMAIN srcDirs'
              /\ \A n \in DOMAIN srcDirs \ {TemplatePackageDir} :
                    n \in DOMAIN srcDirs' /\ srcDirs'[n] = srcDirs[n]
    ]_vars

C4_Witness ==
    /\ results["rename_package"] = "fail"
    /\ package_name = TemplatePackageDir
    /\ TemplatePackageDir \in DOMAIN fs0.srcDirs

C4_WitnessMoved ==
    /\ results["rename_package"] = "ok"
    /\ package_name \in DOMAIN srcDirs
    /\ TemplatePackageDir \notin DOMAIN srcDirs

\* C5: the package name get_user_input returns is never empty.
C5_PackageNameNonEmpty == pc = "confirm" => package_name # <<>>

\* C6: both name transformers are idempotent.
C6_Idempotent ==
    pc = "transformed" => twice.snake = once.snake /\ twice.kebab = once.kebab

\* the line the four substitutions are to make of a line
C7_NewLine(line) ==
    IF MatchesProjectName(line) THEN [line EXCEPT !.value = pyproject_name]
    ELSE IF MatchesDescription(line)
         THEN [line EXCEPT !.value = pyproject_name \o DescriptionSuffix]
    ELSE IF MatchesAuthorName(line) THEN [line EXCEPT !.value = author_name]
    ELSE IF MatchesAuthorEmail(line) THEN [line EXCEPT !.value = author_email]
    ELSE line

\* C7: update_pyproject_toml rewrites each field whose pattern is present to
\* the new value, leaves every other line as it was and reports success; it
\* reports failure and writes nothing when the file does not exist.
C7_FieldsRewritten ==
    results["update_pyproject_toml"] # "none" =>
        IF fs0.pyproject.exists
        THEN /\ results["update_pyproject_toml"] = "ok"
             /\ pyproject.exists
             /\ DOMAIN pyproject.text = DOMAIN fs0.pyproject.text
             /\ \A i \in DOMAIN pyproject.text :
                   /\ pyproject.text[i].value = C7_NewLine(fs0.pyproject.text[i]).value
                   /\ Lower(pyproject.text[i].key) = Lower(fs0.pyproject.text[i].key)
        ELSE /\ results["update_pyproject_toml"] = "fail"
             /\ pyproject = fs0.pyproject

\* C8: once the confirmation is not declined main calls the four steps in the
\* order rename, config edit, marker write, version-control reset, whatever an
\* earlier step returned; a failed rename ends in exit code 1.
C8_AllStepsInOrder ==
    /\ IsPrefix(started, AllSteps)
    /\ (pc = "done" /\ ConfirmAccepted) => started = AllSteps
    /\ (pc = "done" /\ results["rename_package"] = "fail") => exitCode = 1

C8_Witness ==
    /\ pc = "done"
    /\ TemplatePackageDir \notin DOMAIN fs0.srcDirs
    /\ results["rename_package"] = "fail"
    /\ results["reinit_git"] # "none"
    /\ started = AllSteps
    /\ exitCode = 1

\* C9: the script is removed only when the accumulated flag is true, the four
\* steps have returned and the user did not decline the removal prompt; with
\* exit code 1, or after a declined confirmation, the script is still there;
\* a failing removal leaves the exit code at 0.
C9_SelfRemoval ==
    /\ script = "removed" =>
          /\ success
          /\ \A st \in Steps : results[st] # "none"
          /\ answers["remove"].asked
          /\ Lower(Strip(answers["remove"].raw)) \notin { <<"n">>, <<"n","o">> }
          /\ exitCode = 0
    /\ exitCode = 1 => script = "present"
    /\ ConfirmDeclined => script = "present"
    /\ answers["remove"].asked => exitCode = 0

C9_Witness ==
    /\ pc = "done"
    /\ script = "removed"

C9_WitnessFailedRemoval ==
    /\ pc = "done"
    /\ answers["remove"] = Typed(<<>>)
    /\ script = "present"
    /\ exitCode = 0

\* C10: reinit_git changes .git only after the answer y or yes (trimmed, in
\* any case); any other answer leaves .git alone and the step succeeds; .git
\* is gone before git init runs, and a failing git init leaves it gone.
C10_GitReset ==
    [][/\ gitDir' # gitDir =>
             /\ pc \in {"git_rmtree", "git_init"}
             /\ Lower(Strip(answers["git"].raw)) \in { <<"y">>, <<"y","e","s">> }
       /\ (pc = "reinit_git" /\ answers'["git"].asked
           /\ Lower(Strip(answers'["git"].raw)) \notin { <<"y">>, <<"y","e","s">> })
          => /\ results'["reinit_git"] = "ok"
             /\ gitDir' = gitDir
             /\ pc' = "report"
       /\ pc = "git_init" =>
             /\ gitDir = "absent"
             /\ results'["reinit_git"] = "ok" => gitDir' = "fresh"
             /\ results'["reinit_git"] = "fail" => gitDir' = "absent"
    ]_vars

C10_Witness ==
    /\ fs0.gitDir = "old"
    /\ answers["git"] = Typed(<<" ","Y","E","S">>)
    /\ results["reinit_git"] = "fail"
    /\ gitDir = "absent"

====
